---------------------------- MODULE Spec2Model ----------------------------
(***************************************************************************)
(* Model of the two rule evaluators of turkey-crypto-aml-framework:        *)
(*   src/tools/risk_scorer.py          TurkeyCorridorRiskScorer             *)
(*   src/tools/threshold_calculator.py MASAKThresholdCalculator             *)
(*                                                                         *)
(* A client issues calls; the state records the latest call with its       *)
(* result and the call before it.  Optional Python arguments (None or a    *)
(* value) are the sequences <<>> and <<v>>.  Amounts that the code holds   *)
(* as floats are exact rationals [n, d] with d > 0: the rounding of IEEE   *)
(* doubles is not modelled.                                                *)
(***************************************************************************)
EXTENDS Integers, Sequences, FiniteSets, TLC

VARIABLES
    hashSeed,    \* iteration order of a set of str in this interpreter process
    calcs,       \* USD_TRY_RATE seen by each live MASAKThresholdCalculator
    call,        \* the latest call: [op, self, args]
    result,      \* what the latest call returned (or the error it raised)
    prevCall,    \* the call before the latest one
    prevResult   \* and its result

vars == <<hashSeed, calcs, call, result, prevCall, prevResult>>

(***************************************************************************)
(* Bounds of the model.                                                    *)
(***************************************************************************)
MaxCalcs == 1
MaxTxs == 2

None == <<>>
Some(v) == <<v>>

Min(a, b) == IF a < b THEN a ELSE b

NoCall == [op |-> "none"]
NoResult == [status |-> "none"]

(***************************************************************************)
(* Python str operations on the strings the model uses.                    *)
(***************************************************************************)
\* str.upper()
Upper(s) ==
    CASE s = "ir" -> "IR"
      [] s = "xmr" -> "XMR"
      [] OTHER -> s

\* str < str: lexicographic order of the code points
RECURSIVE StrLess(_, _)
StrLess(a, b) ==
    IF b = <<>> THEN FALSE
    ELSE IF a = <<>> THEN TRUE
    ELSE IF a[1] # b[1] THEN a[1] < b[1]
    ELSE StrLess(Tail(a), Tail(b))

(***************************************************************************)
(* risk_scorer.py                                                          *)
(***************************************************************************)
\* CountryRisk member -> the code points of its .value
CountryRiskValue ==
    [PROHIBITED |-> <<112, 114, 111, 104, 105, 98, 105, 116, 101, 100>>, \* "prohibited"
     HIGH_RISK  |-> <<104, 105, 103, 104, 95, 114, 105, 115, 107>>,      \* "high_risk"
     ELEVATED   |-> <<101, 108, 101, 118, 97, 116, 101, 100>>,           \* "elevated"
     STANDARD   |-> <<115, 116, 97, 110, 100, 97, 114, 100>>,            \* "standard"
     LOW        |-> <<108, 111, 119>>]                                   \* "low"

CountryRisk == DOMAIN CountryRiskValue

COUNTRY_RISK ==
    [c \in {"IR", "KP", "SY", "CU", "RU", "BY", "MM", "VE", "YE", "AE", "PK", "NG",
            "PH", "TR", "US", "GB", "DE", "FR", "JP", "SG", "CH"} |->
        CASE c \in {"IR", "KP", "SY", "CU"} -> "PROHIBITED"
          [] c \in {"RU", "BY", "MM", "VE", "YE"} -> "HIGH_RISK"
          [] c \in {"AE", "PK", "NG", "PH"} -> "ELEVATED"
          [] c = "TR" -> "STANDARD"
          [] OTHER -> "LOW"]

HIGH_RISK_CRYPTO == [XMR |-> 40, ZEC |-> 30, DASH |-> 25, USDT |-> 15]

RISK_WEIGHTS ==
    [prohibited_country |-> 100, high_risk_country |-> 50, elevated_country |-> 25,
     large_amount |-> 20, privacy_coin |-> 40, new_relationship |-> 15,
     complex_structure |-> 20, rapid_movement |-> 25, no_economic_purpose |-> 30,
     turkey_corridor |-> 35]

get_country_risk(country_code) ==
    IF Upper(country_code) \in DOMAIN COUNTRY_RISK
    THEN COUNTRY_RISK[Upper(country_code)]
    ELSE "STANDARD"

\* "Higher of the two country risks": from_risk if from_risk.value < to_risk.value else to_risk
SelectCountryRisk(from_risk, to_risk) ==
    IF StrLess(CountryRiskValue[from_risk], CountryRiskValue[to_risk])
    THEN from_risk
    ELSE to_risk

\* What one rule adds to the accumulators of score_transaction.
Nothing == [score |-> 0, factors |-> <<>>, recommendations |-> <<>>,
            edd_required |-> FALSE, block_recommended |-> FALSE]

CountryRule(country_risk) ==
    CASE country_risk = "PROHIBITED" ->
           [score |-> RISK_WEIGHTS.prohibited_country,
            factors |-> <<"PROHIBITED: Transaction involves sanctioned jurisdiction">>,
            recommendations |->
                <<"BLOCK: Transaction involves comprehensively sanctioned jurisdiction">>,
            edd_required |-> TRUE, block_recommended |-> TRUE]
      [] country_risk = "HIGH_RISK" ->
           [score |-> RISK_WEIGHTS.high_risk_country,
            factors |-> <<"HIGH RISK: Transaction involves high-risk jurisdiction">>,
            recommendations |-> <<"Enhanced due diligence required",
                                  "Verify source and destination of funds">>,
            edd_required |-> TRUE, block_recommended |-> FALSE]
      [] country_risk = "ELEVATED" ->
           [score |-> RISK_WEIGHTS.elevated_country,
            factors |-> <<"ELEVATED: Transaction involves elevated-risk jurisdiction">>,
            recommendations |-> <<"Additional monitoring recommended">>,
            edd_required |-> FALSE, block_recommended |-> FALSE]
      [] OTHER -> Nothing

corridor_countries == {"TR", "IR", "RU", "AE", "BY"}

\* A variant of CorridorRule that takes one endpoint in the watch-set as enough.
CorridorRule_EitherEndpoint(from_country, to_country) ==
    IF /\ \/ Upper(from_country) \in corridor_countries
          \/ Upper(to_country) \in corridor_countries
       /\ {Upper(from_country), Upper(to_country)} \cap {"IR", "RU"} # {}
    THEN [score |-> RISK_WEIGHTS.turkey_corridor,
          factors |-> <<"CORRIDOR ALERT: Transaction pattern matches Turkey-Iran-Russia sanctions evasion corridor">>,
          recommendations |-> <<"Manual review required - corridor transaction">>,
          edd_required |-> TRUE, block_recommended |-> FALSE]
    ELSE Nothing

CorridorRule(from_country, to_country) ==
    IF /\ Upper(from_country) \in corridor_countries
       /\ Upper(to_country) \in corridor_countries
       /\ {Upper(from_country), Upper(to_country)} \cap {"IR", "RU"} # {}
    THEN [score |-> RISK_WEIGHTS.turkey_corridor,
          factors |-> <<"CORRIDOR ALERT: Transaction pattern matches Turkey-Iran-Russia sanctions evasion corridor">>,
          recommendations |-> <<"Manual review required - corridor transaction">>,
          edd_required |-> TRUE, block_recommended |-> FALSE]
    ELSE Nothing

CryptoRule(crypto_type) ==
    IF Upper(crypto_type) \in DOMAIN HIGH_RISK_CRYPTO
    THEN [Nothing EXCEPT
            !.score = HIGH_RISK_CRYPTO[Upper(crypto_type)],
            !.factors = <<"HIGH-RISK CRYPTO: elevated privacy/evasion risk">>,
            !.recommendations =
                IF Upper(crypto_type) = "XMR"
                THEN <<"Monero transactions cannot be traced - extra caution required">>
                ELSE <<>>]
    ELSE Nothing

\* A variant of AmountRule whose lower tier starts above 10,000 instead of at it.
AmountRule_Above10000(amount_usd) ==
    IF amount_usd >= 100000
    THEN [Nothing EXCEPT !.score = RISK_WEIGHTS.large_amount,
                         !.factors = <<"LARGE AMOUNT: exceeds $100,000 threshold">>,
                         !.edd_required = TRUE]
    ELSE IF amount_usd > 10000
    THEN [Nothing EXCEPT !.score = RISK_WEIGHTS.large_amount \div 2,
                         !.factors = <<"SIGNIFICANT AMOUNT">>]
    ELSE Nothing

AmountRule(amount_usd) ==
    IF amount_usd >= 100000
    THEN [Nothing EXCEPT !.score = RISK_WEIGHTS.large_amount,
                         !.factors = <<"LARGE AMOUNT: exceeds $100,000 threshold">>,
                         !.edd_required = TRUE]
    ELSE IF amount_usd >= 10000
    THEN [Nothing EXCEPT !.score = RISK_WEIGHTS.large_amount \div 2,
                         !.factors = <<"SIGNIFICANT AMOUNT">>]
    ELSE Nothing

NewCustomerRule(is_new_customer) ==
    IF is_new_customer
    THEN [Nothing EXCEPT !.score = RISK_WEIGHTS.new_relationship,
                         !.factors = <<"NEW CUSTOMER: Relationship less than 30 days">>,
                         !.recommendations =
                             <<"Verify customer identity and source of funds">>]
    ELSE Nothing

RapidMovementRule(days_since_deposit) ==
    IF days_since_deposit < 3
    THEN [Nothing EXCEPT !.score = RISK_WEIGHTS.rapid_movement,
                         !.factors = <<"RAPID MOVEMENT: Funds withdrawn shortly after deposit">>,
                         !.recommendations = <<"Review for potential layering activity">>]
    ELSE Nothing

EconomicPurposeRule(has_economic_purpose) ==
    IF ~has_economic_purpose
    THEN [Nothing EXCEPT !.score = RISK_WEIGHTS.no_economic_purpose,
                         !.factors = <<"NO CLEAR PURPOSE: Transaction lacks apparent economic rationale">>,
                         !.recommendations =
                             <<"Request documentation of transaction purpose">>]
    ELSE Nothing

\* The accumulators after one more rule.
Accumulate(acc, rule) ==
    [score |-> acc.score + rule.score,
     factors |-> acc.factors \o rule.factors,
     recommendations |-> acc.recommendations \o rule.recommendations,
     edd_required |-> acc.edd_required \/ rule.edd_required,
     block_recommended |-> acc.block_recommended \/ rule.block_recommended]

\* The accumulators after all rules, in the order of the code.
ApplyRules(country_risk, a) ==
    LET r1 == Accumulate(Nothing, CountryRule(country_risk))
        r2 == Accumulate(r1, CorridorRule(a.from_country, a.to_country))
        r3 == Accumulate(r2, CryptoRule(a.crypto_type))
        r4 == Accumulate(r3, AmountRule(a.amount_usd))
        r5 == Accumulate(r4, NewCustomerRule(a.is_new_customer))
        r6 == Accumulate(r5, RapidMovementRule(a.days_since_deposit))
    IN  Accumulate(r6, EconomicPurposeRule(a.has_economic_purpose))

\* A variant of OverallLevel whose HIGH band starts above 50 instead of at 50.
OverallLevel_HighAbove50(score, block_recommended) ==
    IF score >= 80 \/ block_recommended THEN "CRITICAL"
    ELSE IF score > 50 THEN "HIGH"
    ELSE IF score >= 30 THEN "MEDIUM"
    ELSE IF score >= 15 THEN "LOW"
    ELSE "MINIMAL"

OverallLevel(score, block_recommended) ==
    IF score >= 80 \/ block_recommended THEN "CRITICAL"
    ELSE IF score >= 50 THEN "HIGH"
    ELSE IF score >= 30 THEN "MEDIUM"
    ELSE IF score >= 15 THEN "LOW"
    ELSE "MINIMAL"

\* "Manual review" in str(recommendations): of the recommendation texts only
\* the corridor one holds that substring.
MentionsManualReview(recommendations) ==
    \E i \in DOMAIN recommendations :
        recommendations[i] = "Manual review required - corridor transaction"

\* A variant of GeneralRecommendations that leaves HIGH results without the
\* generic recommendation.
GeneralRecommendations_CriticalOnly(overall_level, recommendations) ==
    IF overall_level = "CRITICAL" /\ ~MentionsManualReview(recommendations)
    THEN Append(recommendations,
                "Manual compliance review recommended before processing")
    ELSE recommendations

GeneralRecommendations(overall_level, recommendations) ==
    IF overall_level \in {"CRITICAL", "HIGH"} /\ ~MentionsManualReview(recommendations)
    THEN Append(recommendations,
                "Manual compliance review recommended before processing")
    ELSE recommendations

\* A variant of ClampScore that returns the accumulated score as it is.
ClampScore_NoClamp(score) == score

\* score=min(score, 100)
ClampScore(score) == Min(score, 100)

score_transaction(a) ==
    LET from_risk == get_country_risk(a.from_country)
        to_risk == get_country_risk(a.to_country)
        country_risk == SelectCountryRisk(from_risk, to_risk)
        acc == ApplyRules(country_risk, a)
        overall_level == OverallLevel(acc.score, acc.block_recommended)
    IN  [status |-> "RiskScore",
         overall_level |-> overall_level,
         score |-> ClampScore(acc.score),
         country_risk |-> country_risk,
         factors |-> acc.factors,
         recommendations |-> GeneralRecommendations(overall_level, acc.recommendations),
         edd_required |-> acc.edd_required,
         block_recommended |-> acc.block_recommended]

(***************************************************************************)
(* The inputs a client passes to score_transaction.                        *)
(***************************************************************************)
Countries == {"IR", "RU", "AE", "TR", "US", "GB", "ZZ", "ir"}
AmountsUsd == {500, 9999, 10000, 99999, 100000}
CryptoTypes == {"BTC", "XMR", "ZEC", "DASH", "USDT", "xmr"}
DaysSinceDeposit == {2, 3, 30}

ScoreArgs ==
    [from_country : Countries, to_country : Countries, amount_usd : AmountsUsd,
     crypto_type : CryptoTypes, is_new_customer : BOOLEAN,
     days_since_deposit : DaysSinceDeposit, has_economic_purpose : BOOLEAN]

ScoreCall(a) == [op |-> "score_transaction", self |-> None, args |-> a]

(***************************************************************************)
(* threshold_calculator.py                                                 *)
(***************************************************************************)
\* Exact rationals [n, d], d > 0, for the float amounts.
Rat(k) == [n |-> k, d |-> 1]
RatMul(a, k) == [n |-> a.n * k, d |-> a.d]
RatDiv(a, k) == [n |-> a.n, d |-> a.d * k]
RatGeq(a, b) == a.n * b.d >= b.n * a.d
RatLess(a, b) == a.n * b.d < b.n * a.d
RatEq(a, b) == a.n * b.d = b.n * a.d

\* TransactionType member values
TransactionType ==
    {"wire_transfer", "cash", "crypto_deposit", "crypto_withdrawal", "crypto_transfer",
     "fiat_deposit", "fiat_withdrawal"}

\* THRESHOLDS.items(), in the insertion order of the dict
THRESHOLDS ==
    <<[name |-> "wire_transfer_reporting", value |-> 75000],
      [name |-> "cash_reporting", value |-> 100000],
      [name |-> "travel_rule", value |-> 15000],
      [name |-> "edd_trigger", value |-> 500000],
      [name |-> "large_crypto", value |-> 75000]>>

\* THRESHOLDS[name]
Threshold(name) ==
    THRESHOLDS[CHOOSE i \in DOMAIN THRESHOLDS : THRESHOLDS[i].name = name].value

\* The class attribute
USD_TRY_RATE == 34

\* __init__: the rate the new instance reads as self.USD_TRY_RATE
InitRate(usd_try_rate) ==
    IF usd_try_rate # None /\ usd_try_rate[1] # 0
    THEN usd_try_rate[1]
    ELSE USD_TRY_RATE

\* A variant of ConvertAmounts without the validation: absent amounts count as 0.
ConvertAmounts_NoValidation(rate, amount_try, amount_usd) ==
    IF amount_try = None /\ amount_usd # None
    THEN [error |-> "", amount_try |-> RatMul(Rat(amount_usd[1]), rate),
          amount_usd |-> Rat(amount_usd[1])]
    ELSE IF amount_try # None /\ amount_usd = None
    THEN [error |-> "", amount_try |-> Rat(amount_try[1]),
          amount_usd |-> RatDiv(Rat(amount_try[1]), rate)]
    ELSE IF amount_try = None /\ amount_usd = None
    THEN [error |-> "", amount_try |-> Rat(0), amount_usd |-> Rat(0)]
    ELSE [error |-> "", amount_try |-> Rat(amount_try[1]),
          amount_usd |-> Rat(amount_usd[1])]

\* calculate, "Convert amounts": the pair after the conversion, or the error
ConvertAmounts(rate, amount_try, amount_usd) ==
    IF amount_try = None /\ amount_usd # None
    THEN [error |-> "", amount_try |-> RatMul(Rat(amount_usd[1]), rate),
          amount_usd |-> Rat(amount_usd[1])]
    ELSE IF amount_try # None /\ amount_usd = None
    THEN [error |-> "", amount_try |-> Rat(amount_try[1]),
          amount_usd |-> RatDiv(Rat(amount_try[1]), rate)]
    ELSE IF amount_try = None /\ amount_usd = None
    THEN [error |-> "ValueError"]
    ELSE [error |-> "", amount_try |-> Rat(amount_try[1]),
          amount_usd |-> Rat(amount_usd[1])]

\* A variant of Exceeds that compares with > instead of >=.
Exceeds_Strict(amount_try, name) == ~RatGeq(Rat(Threshold(name)), amount_try)

\* amount_try >= self.THRESHOLDS[name]
Exceeds(amount_try, name) == RatGeq(amount_try, Rat(Threshold(name)))

NoReport == [requires_reporting |-> FALSE, reporting_type |-> "None", notes |-> <<>>]

\* calculate, "Check thresholds based on transaction type"
ReportingCheck(transaction_type, amount_try) ==
    IF transaction_type \in {"wire_transfer", "fiat_deposit", "fiat_withdrawal"}
    THEN IF Exceeds(amount_try, "wire_transfer_reporting")
         THEN [requires_reporting |-> TRUE,
               reporting_type |-> "Large Transaction Report (same day)",
               notes |-> <<"Exceeds wire transfer threshold of 75,000 TRY">>]
         ELSE NoReport
    ELSE IF transaction_type = "cash"
    THEN IF Exceeds(amount_try, "cash_reporting")
         THEN [requires_reporting |-> TRUE,
               reporting_type |-> "Cash Transaction Report (same day)",
               notes |-> <<"Exceeds cash threshold of 100,000 TRY">>]
         ELSE NoReport
    ELSE IF transaction_type \in {"crypto_deposit", "crypto_withdrawal", "crypto_transfer"}
    THEN IF Exceeds(amount_try, "large_crypto")
         THEN [requires_reporting |-> TRUE,
               reporting_type |-> "Large Transaction Report (same day)",
               notes |-> <<"Exceeds crypto threshold of 75,000 TRY">>]
         ELSE NoReport
    ELSE NoReport

\* calculate, "Travel Rule check"
TravelRuleCheck(amount_try) == Exceeds(amount_try, "travel_rule")

\* calculate, "EDD check"
EddCheck(amount_try) == Exceeds(amount_try, "edd_trigger")

calculate(rate, transaction_type, amount_try, amount_usd) ==
    LET conv == ConvertAmounts(rate, amount_try, amount_usd)
    IN  IF conv.error # ""
        THEN [status |-> "raised", error |-> conv.error]
        ELSE
        LET report == ReportingCheck(transaction_type, conv.amount_try)
            travel_rule_applies == TravelRuleCheck(conv.amount_try)
            edd_required == EddCheck(conv.amount_try)
        IN  [status |-> "ThresholdResult",
             transaction_type |-> transaction_type,
             amount_try |-> conv.amount_try,
             amount_usd |-> conv.amount_usd,
             requires_reporting |-> report.requires_reporting,
             reporting_type |-> report.reporting_type,
             travel_rule_applies |-> travel_rule_applies,
             edd_required |-> edd_required,
             notes |->
                 report.notes
                 \o (IF travel_rule_applies
                     THEN <<"Travel Rule applies (>=15,000 TRY)",
                            "Must collect/transmit originator and beneficiary information">>
                     ELSE <<>>)
                 \o (IF edd_required
                     THEN <<"Enhanced Due Diligence required (>=500,000 TRY)",
                            "Additional source of funds verification needed">>
                     ELSE <<>>)
                 \o (IF transaction_type = "crypto_withdrawal"
                     THEN <<"Per Circular No. 29: Withdrawal delays may apply for first-time or high-risk withdrawals">>
                     ELSE <<>>)]

\* dict.get(key, default)
Get(t, key, default) == IF key \in DOMAIN t THEN t[key] ELSE default

\* sum(t.get("amount_try", 0) for t in transactions)
RECURSIVE SumAmounts(_)
SumAmounts(transactions) ==
    IF transactions = <<>> THEN 0
    ELSE Get(Head(transactions), "amount_try", 0) + SumAmounts(Tail(transactions))

\* tx_types.count(k)
Count(tx_types, k) == Cardinality({i \in DOMAIN tx_types : tx_types[i] = k})

\* max(set(tx_types), key=tx_types.count): max keeps the first of the elements
\* with the largest key, in the iteration order of the set, which the hashes
\* of the strings fix: `order` lists the strings in that order.
MostCommon(tx_types, order) ==
    LET present == {tx_types[i] : i \in DOMAIN tx_types}
        InSet(k) == k \in present
        iteration == SelectSeq(order, InSet)
        best == CHOOSE c \in {Count(tx_types, k) : k \in present} :
                    \A k \in present : Count(tx_types, k) <= c
        first == CHOOSE i \in DOMAIN iteration :
                    /\ Count(tx_types, iteration[i]) = best
                    /\ \A j \in 1 .. (i - 1) : Count(tx_types, iteration[j]) # best
    IN  iteration[first]

\* TransactionType(most_common), CRYPTO_TRANSFER on ValueError
ToTransactionType(most_common) ==
    IF most_common \in TransactionType THEN most_common ELSE "crypto_transfer"

StructuringNote(threshold_name) ==
    CASE threshold_name = "wire_transfer_reporting" ->
           "STRUCTURING ALERT: Average transaction is just below wire_transfer_reporting threshold (75,000 TRY)"
      [] threshold_name = "cash_reporting" ->
           "STRUCTURING ALERT: Average transaction is just below cash_reporting threshold (100,000 TRY)"
      [] threshold_name = "travel_rule" ->
           "STRUCTURING ALERT: Average transaction is just below travel_rule threshold (15,000 TRY)"
      [] threshold_name = "edd_trigger" ->
           "STRUCTURING ALERT: Average transaction is just below edd_trigger threshold (500,000 TRY)"
      [] threshold_name = "large_crypto" ->
           "STRUCTURING ALERT: Average transaction is just below large_crypto threshold (75,000 TRY)"

\* A variant of JustBelow that also takes an average equal to the threshold.
JustBelow_UpTo(avg_amount, threshold_value) ==
    /\ RatGeq(avg_amount, [n |-> 4 * threshold_value, d |-> 5])
    /\ RatGeq(Rat(threshold_value), avg_amount)

\* 0.8 * threshold_value <= avg_amount < threshold_value
\* (0.8 * v is the exact double 4v/5 for each v of THRESHOLDS)
JustBelow(avg_amount, threshold_value) ==
    /\ RatGeq(avg_amount, [n |-> 4 * threshold_value, d |-> 5])
    /\ RatLess(avg_amount, Rat(threshold_value))

\* The notes the loop over THRESHOLDS.items() appends, from item i on.
RECURSIVE StructuringNotes(_, _)
StructuringNotes(i, avg_amount) ==
    IF i > Len(THRESHOLDS) THEN <<>>
    ELSE (IF JustBelow(avg_amount, THRESHOLDS[i].value)
          THEN <<StructuringNote(THRESHOLDS[i].name)>>
          ELSE <<>>)
         \o StructuringNotes(i + 1, avg_amount)

calculate_cumulative(rate, transactions, order) ==
    LET total_try == SumAmounts(transactions)
        tx_types == [i \in DOMAIN transactions |-> Get(transactions[i], "type", "None")]
        most_common == IF transactions # <<>>
                       THEN MostCommon(tx_types, order)
                       ELSE "crypto_transfer"
        tx_type == ToTransactionType(most_common)
        res == calculate(rate, tx_type, Some(total_try), None)
    IN  IF Len(transactions) > 1
        THEN [res EXCEPT !.notes =
                 @ \o StructuringNotes(1, RatDiv(Rat(total_try), Len(transactions)))]
        ELSE res

(***************************************************************************)
(* The inputs a client passes to the calculator.                           *)
(***************************************************************************)
RateArgs == {None, Some(0), Some(30)}
AmountTryArgs ==
    {None} \cup {Some(v) : v \in {14999, 15000, 74999, 75000, 99999, 100000, 150000,
                                  499999, 500000}}
AmountUsdArgs == {None} \cup {Some(v) : v \in {100, 500, 2500, 20000}}

\* The type strings that occur in transaction lists; a process iterates over a
\* set of them in one of these orders.
TypeKeys == {"cash", "crypto_transfer", "bogus"}
HashOrders ==
    {o \in {<<a, b, c>> : a \in TypeKeys, b \in TypeKeys, c \in TypeKeys} :
        {o[1], o[2], o[3]} = TypeKeys}

Transactions ==
    [type : {"cash", "crypto_transfer"}, amount_try : {50000, 67500, 75000, 85000}]
    \cup {[type |-> "bogus", amount_try |-> 67500], [type |-> "cash"]}

RECURSIVE SeqsUpTo(_, _)
SeqsUpTo(S, n) ==
    IF n = 0 THEN {<<>>}
    ELSE LET shorter == SeqsUpTo(S, n - 1)
         IN  shorter \cup {Append(s, x) : s \in {q \in shorter : Len(q) = n - 1}, x \in S}

TransactionLists == SeqsUpTo(Transactions, MaxTxs)

CalculateCall(rate, tt, at, au) ==
    [op |-> "calculate", self |-> Some(rate),
     args |-> [transaction_type |-> tt, amount_try |-> at, amount_usd |-> au]]

CumulativeCall(rate, txs) ==
    [op |-> "calculate_cumulative", self |-> Some(rate), args |-> [transactions |-> txs]]

\* What call c returns in a process whose set iteration order is `order`.
Eval(c, order) ==
    CASE c.op = "score_transaction" -> score_transaction(c.args)
      [] c.op = "calculate" ->
           calculate(c.self[1], c.args.transaction_type, c.args.amount_try,
                     c.args.amount_usd)
      [] c.op = "calculate_cumulative" ->
           calculate_cumulative(c.self[1], c.args.transactions, order)

(***************************************************************************)
(* The client: one call at a time.  A result is kept until it is           *)
(* discarded; the same call may be issued again, or (for the scorer) the   *)
(* same call with another amount; the interpreter may be restarted.        *)
(***************************************************************************)
Issue(c) ==
    /\ prevCall' = call
    /\ prevResult' = result
    /\ call' = c
    /\ result' = Eval(c, hashSeed)
    /\ UNCHANGED <<hashSeed, calcs>>

ScoreTransaction(a) ==
    /\ call = NoCall
    /\ Issue(ScoreCall(a))

ScoreOtherAmount(amount_usd) ==
    /\ call.op = "score_transaction"
    /\ amount_usd # call.args.amount_usd
    /\ Issue(ScoreCall([call.args EXCEPT !.amount_usd = amount_usd]))

Construct(usd_try_rate) ==
    /\ Len(calcs) < MaxCalcs
    /\ calcs' = Append(calcs, InitRate(usd_try_rate))
    /\ UNCHANGED <<hashSeed, call, result, prevCall, prevResult>>

Calculate(i, tt, at, au) ==
    /\ call = NoCall
    /\ Issue(CalculateCall(calcs[i], tt, at, au))

CalculateCumulative(i, txs) ==
    /\ call = NoCall
    /\ Issue(CumulativeCall(calcs[i], txs))

Repeat ==
    /\ call # NoCall
    /\ call.self # None => \E i \in DOMAIN calcs : calcs[i] = call.self[1]
    /\ Issue(call)

Restart ==
    /\ hashSeed' \in HashOrders
    /\ calcs' = <<>>
    /\ UNCHANGED <<call, result, prevCall, prevResult>>

Discard ==
    /\ call # NoCall
    /\ call' = NoCall
    /\ result' = NoResult
    /\ prevCall' = NoCall
    /\ prevResult' = NoResult
    /\ UNCHANGED <<hashSeed, calcs>>

Idle ==
    /\ calcs = <<>>
    /\ call = NoCall
    /\ result = NoResult
    /\ prevCall = NoCall
    /\ prevResult = NoResult

\* The scorer, which holds no state and iterates over no set.
InitScore ==
    /\ hashSeed = <<"cash", "crypto_transfer", "bogus">>
    /\ Idle

NextScore ==
    \/ call = NoCall /\ \E a \in ScoreArgs : ScoreTransaction(a)
    \/ call # NoCall /\ \E amount_usd \in AmountsUsd : ScoreOtherAmount(amount_usd)
    \/ Discard

SpecScore == InitScore /\ [][NextScore]_vars

\* The calculator.
InitCalc ==
    /\ hashSeed \in HashOrders
    /\ Idle

NextCalc ==
    \/ \E usd_try_rate \in RateArgs : Construct(usd_try_rate)
    \/ call = NoCall /\ \E i \in DOMAIN calcs, tt \in TransactionType,
                            at \in AmountTryArgs, au \in AmountUsdArgs :
                             Calculate(i, tt, at, au)
    \/ call = NoCall /\ \E i \in DOMAIN calcs, txs \in TransactionLists :
                             CalculateCumulative(i, txs)
    \/ Repeat
    \/ Restart
    \/ Discard

SpecCalc == InitCalc /\ [][NextCalc]_vars

(***************************************************************************)
(* Properties of score_transaction (under SpecScore).                      *)
(***************************************************************************)
Scored == call.op = "score_transaction" /\ result.status = "RiskScore"

InvolvesProhibited ==
    "PROHIBITED" \in {get_country_risk(call.args.from_country),
                      get_country_risk(call.args.to_country)}

\* C1: a call with a prohibited-tier jurisdiction on either side returns
\* block_recommended = TRUE and level CRITICAL, with country_risk PROHIBITED
\* and score 100.
C1_ProhibitedIsBlocked ==
    (Scored /\ InvolvesProhibited) =>
        /\ result.block_recommended
        /\ result.overall_level = "CRITICAL"
        /\ result.country_risk = "PROHIBITED"
        /\ result.score = 100

\* C2: the returned score is an integer between 0 and 100, for all inputs.
C2_ScoreInRange == Scored => result.score \in 0 .. 100

\* A call whose accumulated score exceeds 100 returned 100.
C2_Witness ==
    /\ Scored
    /\ ApplyRules(result.country_risk, call.args).score > 100
    /\ result.score = 100

\* The severity ranking prohibited > high-risk > elevated > standard > low.
Severity(tier) ==
    CASE tier = "PROHIBITED" -> 4
      [] tier = "HIGH_RISK" -> 3
      [] tier = "ELEVATED" -> 2
      [] tier = "STANDARD" -> 1
      [] tier = "LOW" -> 0

HigherSeverity(t1, t2) == IF Severity(t1) >= Severity(t2) THEN t1 ELSE t2

\* C3: the returned country_risk is the higher-severity tier of the source
\* and the destination tiers.
C3_HigherSeverityTier ==
    Scored =>
        result.country_risk =
            HigherSeverity(get_country_risk(call.args.from_country),
                           get_country_risk(call.args.to_country))

\* The tier of an amount: 0 below 10,000, 1 in [10,000, 100,000), 2 from 100,000.
AmountBand(amount_usd) ==
    IF amount_usd < 10000 THEN 0 ELSE IF amount_usd < 100000 THEN 1 ELSE 2

\* The latest two calls are score_transaction calls that differ only in the
\* amount, the later one in the next amount band.
AmountStepped ==
    /\ Scored
    /\ prevCall.op = "score_transaction"
    /\ [call.args EXCEPT !.amount_usd = 0] = [prevCall.args EXCEPT !.amount_usd = 0]
    /\ AmountBand(call.args.amount_usd) = AmountBand(prevCall.args.amount_usd) + 1

\* C4 as stated: moving the amount into the next band raises the returned
\* score by 10, whatever the other inputs.
C4_AmountStepAddsTen == AmountStepped => result.score = prevResult.score + 10

\* C4 as amended: moving the amount into the next band raises the returned
\* score by 10, up to the cap of 100.
C4_AmountStepAddsTenCapped ==
    AmountStepped => result.score = Min(100, prevResult.score + 10)

\* The amount moved from [10,000, 100,000) to 100,000 or more and the score
\* rose by 10.
C4_Witness ==
    /\ AmountStepped
    /\ AmountBand(call.args.amount_usd) = 2
    /\ result.score = prevResult.score + 10

\* C9: the level is given by the returned score and block flag through the
\* bands CRITICAL (>= 80 or block), HIGH (>= 50), MEDIUM (>= 30), LOW (>= 15),
\* MINIMAL.
C9_LevelFromScoreAndBlock ==
    Scored =>
        /\ result.overall_level = "CRITICAL"
             <=> (result.score >= 80 \/ result.block_recommended)
        /\ result.overall_level = "HIGH"
             <=> (~result.block_recommended /\ result.score \in 50 .. 79)
        /\ result.overall_level = "MEDIUM"
             <=> (~result.block_recommended /\ result.score \in 30 .. 49)
        /\ result.overall_level = "LOW"
             <=> (~result.block_recommended /\ result.score \in 15 .. 29)
        /\ result.overall_level = "MINIMAL"
             <=> (~result.block_recommended /\ result.score < 15)

\* US -> GB, 500, BTC, not new, 30 days, with purpose: score 0, MINIMAL, no block.
C9_Witness ==
    /\ Scored
    /\ call.args = [from_country |-> "US", to_country |-> "GB", amount_usd |-> 500,
                    crypto_type |-> "BTC", is_new_customer |-> FALSE,
                    days_since_deposit |-> 30, has_economic_purpose |-> TRUE]
    /\ result.score = 0
    /\ result.overall_level = "MINIMAL"
    /\ ~result.block_recommended

\* Both endpoints are in {TR, IR, RU, AE, BY} and one is IR or RU (country
\* codes read without regard to case, as the code reads them).
InCorridor ==
    LET f == Upper(call.args.from_country)
        t == Upper(call.args.to_country)
    IN  /\ {f, t} \subseteq {"TR", "IR", "RU", "AE", "BY"}
        /\ f \in {"IR", "RU"} \/ t \in {"IR", "RU"}

\* The sum of the weights the latest call triggers, with the tier weight of
\* the returned country_risk.
WeightSum ==
    LET a == call.args
        asset == Upper(a.crypto_type)
    IN  (CASE result.country_risk = "PROHIBITED" -> 100
           [] result.country_risk = "HIGH_RISK" -> 50
           [] result.country_risk = "ELEVATED" -> 25
           [] OTHER -> 0)
        + (IF InCorridor THEN 35 ELSE 0)
        + (CASE asset = "XMR" -> 40
             [] asset = "ZEC" -> 30
             [] asset = "DASH" -> 25
             [] asset = "USDT" -> 15
             [] OTHER -> 0)
        + (IF a.amount_usd >= 100000 THEN 20
           ELSE IF a.amount_usd >= 10000 THEN 10 ELSE 0)
        + (IF a.is_new_customer THEN 15 ELSE 0)
        + (IF a.days_since_deposit < 3 THEN 25 ELSE 0)
        + (IF ~a.has_economic_purpose THEN 30 ELSE 0)

\* C11: the returned score is min(100, S), S the sum of the independently
\* triggered weights: tier of the returned country_risk, corridor, asset,
\* amount tier, new customer, rapid movement, no economic purpose.
C11_ScoreIsClampedWeightSum == Scored => result.score = Min(100, WeightSum)

\* A corridor call in a high-risk asset whose other rules fire too, below the cap.
C11_Witness ==
    /\ Scored
    /\ InCorridor
    /\ Upper(call.args.crypto_type) = "USDT"
    /\ call.args.amount_usd >= 10000
    /\ WeightSum < 100
    /\ result.score = WeightSum

GenericReview == "Manual compliance review recommended before processing"

\* C12: the generic manual-review recommendation is present, once and last,
\* exactly when the level is CRITICAL or HIGH and the corridor rule did not
\* fire; it is never present for MEDIUM, LOW or MINIMAL.
C12_GenericReviewRecommendation ==
    Scored =>
        LET recs == result.recommendations
            at == {i \in DOMAIN recs : recs[i] = GenericReview}
        IN  IF result.overall_level \in {"CRITICAL", "HIGH"} /\ ~InCorridor
            THEN at = {Len(recs)} /\ recs # <<>>
            ELSE at = {}

\* A HIGH result outside the corridor ends with the generic recommendation.
C12_Witness ==
    /\ Scored
    /\ result.overall_level = "HIGH"
    /\ ~InCorridor
    /\ result.recommendations # <<>>
    /\ result.recommendations[Len(result.recommendations)] = GenericReview

\* A CRITICAL result inside the corridor carries no generic recommendation.
C12_CorridorWitness ==
    /\ Scored
    /\ result.overall_level = "CRITICAL"
    /\ InCorridor
    /\ \A i \in DOMAIN result.recommendations :
           result.recommendations[i] # GenericReview

(***************************************************************************)
(* Properties of the threshold calculator (under SpecCalc).                *)
(***************************************************************************)
Calculated == call.op = "calculate" /\ result.status = "ThresholdResult"

\* C5: the amounts a call of calculate returns satisfy
\* amount_try = amount_usd * rate, whichever amounts were supplied.
C5_AmountsConsistent ==
    Calculated => RatEq(result.amount_try, RatMul(result.amount_usd, call.self[1]))

Cumulated ==
    /\ call.op = "calculate_cumulative"
    /\ result.status = "ThresholdResult"
    /\ Len(call.args.transactions) >= 2

\* The average per-transaction amount of the latest cumulative call is k TRY.
AverageIs(k) ==
    SumAmounts(call.args.transactions) = k * Len(call.args.transactions)

AverageAtLeast(k) ==
    SumAmounts(call.args.transactions) >= k * Len(call.args.transactions)

AlertNaming(names) ==
    \E i \in DOMAIN result.notes : \E name \in names :
        result.notes[i] = StructuringNote(name)

ThresholdNames == {THRESHOLDS[i].name : i \in DOMAIN THRESHOLDS}

\* C6 as stated: over two or more transactions, an average of exactly 67,500
\* TRY gives a structuring alert, and an average of 75,000 TRY or more gives
\* none.
C6_StructuringAlert ==
    Cumulated =>
        /\ AverageIs(67500) => AlertNaming(ThresholdNames)
        /\ AverageAtLeast(75000) => ~AlertNaming(ThresholdNames)

\* C6 as amended: an average of exactly 67,500 TRY gives a structuring alert
\* naming the crypto threshold, and an average of 75,000 TRY or more gives no
\* alert naming a 75,000 threshold (the crypto or the wire one); alerts naming
\* the higher thresholds may still be appended.
C6_CryptoStructuringAlert ==
    Cumulated =>
        /\ AverageIs(67500) => AlertNaming({"large_crypto"})
        /\ AverageAtLeast(75000) =>
               ~AlertNaming({"large_crypto", "wire_transfer_reporting"})

\* Two or more transactions averaging above 75,000 TRY got an alert naming
\* the cash threshold and none naming the crypto threshold.
C6_Witness ==
    /\ Cumulated
    /\ AverageAtLeast(75000)
    /\ AlertNaming({"cash_reporting"})
    /\ ~AlertNaming({"large_crypto", "wire_transfer_reporting"})

ThresholdResultFields ==
    {"status", "transaction_type", "amount_try", "amount_usd", "requires_reporting",
     "reporting_type", "travel_rule_applies", "edd_required", "notes"}

\* C7: calculate raises ValueError exactly when both amounts are absent, and
\* otherwise returns a complete ThresholdResult, for every transaction type.
C7_ValueErrorIffNoAmount ==
    call.op = "calculate" =>
        IF call.args.amount_try = None /\ call.args.amount_usd = None
        THEN result = [status |-> "raised", error |-> "ValueError"]
        ELSE /\ result.status = "ThresholdResult"
             /\ DOMAIN result = ThresholdResultFields

\* calculate was called with neither amount and raised.
C7_Witness ==
    /\ call.op = "calculate"
    /\ call.args.amount_try = None
    /\ call.args.amount_usd = None
    /\ result.status = "raised"

\* The reporting threshold of a transaction type's group, in TRY.
GroupThreshold(transaction_type) ==
    IF transaction_type = "cash" THEN 100000 ELSE 75000

\* C8: requires_reporting holds exactly when amount_try reaches the threshold
\* of the type's group, with the group's report label ("None" when not
\* required); travel_rule_applies exactly from 15,000 TRY and edd_required
\* exactly from 500,000 TRY, whatever the type.
C8_ReportingFlags ==
    Calculated =>
        LET t == result.amount_try
            due == RatGeq(t, Rat(GroupThreshold(call.args.transaction_type)))
        IN  /\ result.requires_reporting = due
            /\ result.reporting_type =
                   IF ~due THEN "None"
                   ELSE IF call.args.transaction_type = "cash"
                   THEN "Cash Transaction Report (same day)"
                   ELSE "Large Transaction Report (same day)"
            /\ result.travel_rule_applies = RatGeq(t, Rat(15000))
            /\ result.edd_required = RatGeq(t, Rat(500000))

\* cash, amount_try = 150,000: report required, cash label, travel rule, no EDD.
C8_Witness ==
    /\ Calculated
    /\ call.args.transaction_type = "cash"
    /\ call.args.amount_try = Some(150000)
    /\ result.requires_reporting
    /\ result.reporting_type = "Cash Transaction Report (same day)"
    /\ result.travel_rule_applies
    /\ ~result.edd_required

\* C10: two calls with equal inputs and equal configured rate return results
\* equal in every field, whatever preceded them.
C10_EqualCallsEqualResults ==
    (call # NoCall /\ prevCall = call) => result = prevResult

=============================================================================
